---- MODULE Spec2Model ----
(***************************************************************************)
(* Session registry and message routing of the backend server:             *)
(* connection_manager.py (ConnectionManager) and main.py (its older        *)
(* ConnectionManager, the /ws endpoint loop).  The endpoint of main.py     *)
(* drives either manager: `variant' says which class the process           *)
(* instantiates ("cm": connection_manager.py, "main": main.py).            *)
(*                                                                         *)
(* Every asyncio suspension point (await) of a coroutine is a value of     *)
(* pc; the code between two awaits is one atomic action.                   *)
(***************************************************************************)
EXTENDS Integers, Sequences, FiniteSets, TLC

\* The websockets offered to the endpoint.  A ClientConnection is created
\* once per websocket with a fresh uuid4, so a client and its client_id are
\* identified with the websocket they were created for.
Conns == {"w1", "w2", "w3"}

\* Python's None, where an Optional[str] id or name is expected.
None == "None"

\* Python's None, where a language code or a text is expected.
NoneLang == <<"None">>

\* Total number of frames the endpoint loops read.
MaxMsgs == 2

\* Length of the language codes every string of which is mapped.
MaxCodeLen == 3

\* Number of times each mapping is called with the same code.
MaxCalls == 2

VARIABLES
  variant,             \* which ConnectionManager class is instantiated
  translator,          \* self.translator is not None (DEEPL_API_KEY set)
  active_connections,  \* List[ClientConnection]
  clients_by_id,       \* keys of Dict[str, ClientConnection]
  lang_groups,         \* Dict[str, List[ClientConnection]], in insertion order
  pi_client_id,        \* Optional[str]
  preferred_lang,      \* ClientConnection.preferred_lang, per client
  display_name,        \* ClientConnection.display_name, per client
  is_pi,               \* the endpoint's local is_pi; FALSE again once its session is unregistered
  closed,              \* websockets whose peer is gone or whose endpoint died
  pc,                  \* where each endpoint coroutine is suspended
  task,                \* locals of the handler each endpoint is running
  msgs,                \* frames read so far
  heartbeat,           \* where send_heartbeat is suspended, and its locals
  subtitle,            \* where a POST /subtitle is suspended, and its locals
  lang_call            \* a language code and what the two mappings returned for it

vars == <<variant, translator, active_connections, clients_by_id, lang_groups,
          pi_client_id, preferred_lang, display_name, is_pi, closed, pc, task,
          msgs, heartbeat, subtitle, lang_call>>

-----------------------------------------------------------------------------
(* Strings as sequences of characters: str.lower, str.upper, slicing. *)

Letters ==
  << <<"a","A">>, <<"b","B">>, <<"c","C">>, <<"d","D">>, <<"e","E">>,
     <<"f","F">>, <<"g","G">>, <<"h","H">>, <<"i","I">>, <<"j","J">>,
     <<"k","K">>, <<"l","L">>, <<"m","M">>, <<"n","N">>, <<"o","O">>,
     <<"p","P">>, <<"q","Q">>, <<"r","R">>, <<"s","S">>, <<"t","T">>,
     <<"u","U">>, <<"v","V">>, <<"w","W">>, <<"x","X">>, <<"y","Y">>,
     <<"z","Z">> >>

LowerChar(ch) ==
  IF \E i \in 1..Len(Letters) : Letters[i][2] = ch
  THEN Letters[CHOOSE i \in 1..Len(Letters) : Letters[i][2] = ch][1]
  ELSE ch

UpperChar(ch) ==
  IF \E i \in 1..Len(Letters) : Letters[i][1] = ch
  THEN Letters[CHOOSE i \in 1..Len(Letters) : Letters[i][1] = ch][2]
  ELSE ch

Lower(s) == [i \in 1..Len(s) |-> LowerChar(s[i])]

Upper(s) == [i \in 1..Len(s) |-> UpperChar(s[i])]

\* s[:2]
First2(s) == SubSeq(s, 1, IF Len(s) < 2 THEN Len(s) ELSE 2)

\* dict.get(k): the value, or None
MapGet(m, k) ==
  IF \E p \in m : p[1] = k THEN (CHOOSE p \in m : p[1] = k)[2] ELSE NoneLang

-----------------------------------------------------------------------------
(* The DeepL code tables of ConnectionManager.__init__. *)

source_lang_map ==
  {<<<<"e","n">>, <<"E","N">>>>,
    <<<<"e","n","-","u","s">>, <<"E","N">>>>,
    <<<<"e","n","-","g","b">>, <<"E","N">>>>,
    <<<<"e","s">>, <<"E","S">>>>,
    <<<<"e","s","-","4","1","9">>, <<"E","S">>>>,
    <<<<"p","t">>, <<"P","T">>>>,
    <<<<"p","t","-","b","r">>, <<"P","T">>>>,
    <<<<"p","t","-","p","t">>, <<"P","T">>>>,
    <<<<"z","h">>, <<"Z","H">>>>,
    <<<<"z","h","-","h","a","n","s">>, <<"Z","H">>>>,
    <<<<"z","h","-","h","a","n","t">>, <<"Z","H">>>>,
    <<<<"a","r">>, <<"A","R">>>>,
    <<<<"b","g">>, <<"B","G">>>>,
    <<<<"c","s">>, <<"C","S">>>>,
    <<<<"d","a">>, <<"D","A">>>>,
    <<<<"d","e">>, <<"D","E">>>>,
    <<<<"e","l">>, <<"E","L">>>>,
    <<<<"e","t">>, <<"E","T">>>>,
    <<<<"f","i">>, <<"F","I">>>>,
    <<<<"f","r">>, <<"F","R">>>>,
    <<<<"h","e">>, <<"H","E">>>>,
    <<<<"h","u">>, <<"H","U">>>>,
    <<<<"i","d">>, <<"I","D">>>>,
    <<<<"i","t">>, <<"I","T">>>>,
    <<<<"j","a">>, <<"J","A">>>>,
    <<<<"k","o">>, <<"K","O">>>>,
    <<<<"l","t">>, <<"L","T">>>>,
    <<<<"l","v">>, <<"L","V">>>>,
    <<<<"n","b">>, <<"N","B">>>>,
    <<<<"n","l">>, <<"N","L">>>>,
    <<<<"p","l">>, <<"P","L">>>>,
    <<<<"r","o">>, <<"R","O">>>>,
    <<<<"r","u">>, <<"R","U">>>>,
    <<<<"s","k">>, <<"S","K">>>>,
    <<<<"s","l">>, <<"S","L">>>>,
    <<<<"s","v">>, <<"S","V">>>>,
    <<<<"t","h">>, <<"T","H">>>>,
    <<<<"t","r">>, <<"T","R">>>>,
    <<<<"u","k">>, <<"U","K">>>>,
    <<<<"v","i">>, <<"V","I">>>> }

target_lang_map ==
  {<<<<"e","n">>, <<"E","N","-","U","S">>>>,
    <<<<"e","n","-","u","s">>, <<"E","N","-","U","S">>>>,
    <<<<"e","n","-","g","b">>, <<"E","N","-","G","B">>>>,
    <<<<"e","s">>, <<"E","S">>>>,
    <<<<"e","s","-","4","1","9">>, <<"E","S","-","4","1","9">>>>,
    <<<<"p","t">>, <<"P","T","-","P","T">>>>,
    <<<<"p","t","-","p","t">>, <<"P","T","-","P","T">>>>,
    <<<<"p","t","-","b","r">>, <<"P","T","-","B","R">>>>,
    <<<<"z","h">>, <<"Z","H","-","H","A","N","S">>>>,
    <<<<"z","h","-","h","a","n","s">>, <<"Z","H","-","H","A","N","S">>>>,
    <<<<"z","h","-","h","a","n","t">>, <<"Z","H","-","H","A","N","T">>>>,
    <<<<"a","r">>, <<"A","R">>>>,
    <<<<"b","g">>, <<"B","G">>>>,
    <<<<"c","s">>, <<"C","S">>>>,
    <<<<"d","a">>, <<"D","A">>>>,
    <<<<"d","e">>, <<"D","E">>>>,
    <<<<"e","l">>, <<"E","L">>>>,
    <<<<"e","t">>, <<"E","T">>>>,
    <<<<"f","i">>, <<"F","I">>>>,
    <<<<"f","r">>, <<"F","R">>>>,
    <<<<"h","e">>, <<"H","E">>>>,
    <<<<"h","u">>, <<"H","U">>>>,
    <<<<"i","d">>, <<"I","D">>>>,
    <<<<"i","t">>, <<"I","T">>>>,
    <<<<"j","a">>, <<"J","A">>>>,
    <<<<"k","o">>, <<"K","O">>>>,
    <<<<"l","t">>, <<"L","T">>>>,
    <<<<"l","v">>, <<"L","V">>>>,
    <<<<"n","b">>, <<"N","B">>>>,
    <<<<"n","l">>, <<"N","L">>>>,
    <<<<"p","l">>, <<"P","L">>>>,
    <<<<"r","o">>, <<"R","O">>>>,
    <<<<"r","u">>, <<"R","U">>>>,
    <<<<"s","k">>, <<"S","K">>>>,
    <<<<"s","l">>, <<"S","L">>>>,
    <<<<"s","v">>, <<"S","V">>>>,
    <<<<"t","h">>, <<"T","H">>>>,
    <<<<"t","r">>, <<"T","R">>>>,
    <<<<"u","k">>, <<"U","K">>>>,
    <<<<"v","i">>, <<"V","I">>>> }

-----------------------------------------------------------------------------
(* Language-code mapping. *)

\* (lang or "")
OrEmpty(lang) == IF lang = NoneLang THEN <<>> ELSE lang

_map_source_lang(lang) ==
  LET norm == Lower(OrEmpty(lang))
      mapped == MapGet(source_lang_map, norm)
  IN  IF norm = <<>> THEN NoneLang
      ELSE IF mapped # NoneLang THEN mapped
      ELSE Upper(First2(norm))

\* a target mapping without the fallback for a code that is not in the table
_map_target_lang_table_only(lang) ==
  MapGet(target_lang_map, Lower(OrEmpty(lang)))

_map_target_lang(lang) ==
  LET norm == Lower(OrEmpty(lang))
      mapped == MapGet(target_lang_map, norm)
      fallback == Upper(First2(norm))
  IN  IF norm = <<>> THEN NoneLang
      ELSE IF mapped # NoneLang THEN mapped
      ELSE IF fallback = <<"E","N">> THEN <<"E","N","-","U","S">>
      ELSE fallback

-----------------------------------------------------------------------------
(* Texts.  A text is the string a client typed, the string DeepL returned   *)
(* for it, or the f-string "[<label> untranslated] <text>".                 *)

Plain(t) == [k |-> "plain", t |-> t, src |-> <<>>, tgt |-> <<>>]

\* result.text of translator.translate_text(text, source_lang, target_lang)
DeepL(text, src, tgt) == [k |-> "deepl", t |-> text.t, src |-> src, tgt |-> tgt]

\* f"[{label} untranslated] {text}"
Untranslated(label, text) ==
  [k |-> "untranslated", t |-> text.t, src |-> <<>>, tgt |-> label]

\* Python truthiness of a str
Truthy(text) == ~(text.k = "plain" /\ text.t = "")

-----------------------------------------------------------------------------
(* The registry as a value, and the ConnectionManager methods that read or  *)
(* change it without suspending.                                            *)

Reg ==
  [ac |-> active_connections, byid |-> clients_by_id, groups |-> lang_groups,
   pi |-> pi_client_id, lang |-> preferred_lang, name |-> display_name]

InSeq(s, x) == \E i \in 1..Len(s) : s[i] = x

\* list.remove(x): drops the first occurrence
RemoveFirst(s, x) ==
  LET i == CHOOSE j \in 1..Len(s) : s[j] = x /\ \A k \in 1..(j-1) : s[k] # x
  IN  SubSeq(s, 1, i-1) \o SubSeq(s, i+1, Len(s))

\* f"Client-{self.client_id[:8]}"
DefaultName(c) == "Client-" \o c

get_client_by_ws(R, ws) == IF InSeq(R.ac, ws) THEN ws ELSE None

get_client_by_id(R, id) == IF id \in R.byid THEN id ELSE None

HasKey(G, lang) == \E i \in 1..Len(G) : G[i].lang = lang

\* self.lang_groups.setdefault(lang, []).append(client)
add_to_lang_group(G, client, lang) ==
  IF HasKey(G, lang)
  THEN [i \in 1..Len(G) |->
          IF G[i].lang = lang
          THEN [G[i] EXCEPT !.members = Append(G[i].members, client)]
          ELSE G[i]]
  ELSE Append(G, [lang |-> lang, members |-> <<client>>])

\* a remove_from_all_lang_groups that removes nothing
remove_from_all_lang_groups_keeps(G, client) == G

remove_from_all_lang_groups(G, client) ==
  LET removed == [i \in 1..Len(G) |->
                    IF InSeq(G[i].members, client)
                    THEN [G[i] EXCEPT !.members = RemoveFirst(G[i].members, client)]
                    ELSE G[i]]
      \* langs_to_delete: the groups this call emptied
      marked == [i \in 1..Len(G) |->
                   [g |-> removed[i],
                    del |-> InSeq(G[i].members, client) /\ removed[i].members = <<>>]]
      kept == SelectSeq(marked, LAMBDA e : ~e.del)
  IN  [i \in 1..Len(kept) |-> kept[i].g]

\* disconnect without `del self.clients_by_id[client.client_id]'
disconnect_keeps_id(R, ws) ==
  LET client == get_client_by_ws(R, ws)
  IN  IF client = None THEN R
      ELSE [R EXCEPT !.ac = IF InSeq(@, client) THEN RemoveFirst(@, client) ELSE @,
                     !.groups = remove_from_all_lang_groups(@, client),
                     !.pi = IF @ = client THEN None ELSE @]

\* connect, from the ClientConnection constructor to the Pi registration
register(R, ws, pi) ==
  [R EXCEPT !.ac = Append(@, ws),
            !.byid = @ \cup {ws},
            !.groups = add_to_lang_group(@, ws, <<"e","n">>),
            !.pi = IF pi THEN ws ELSE @,
            !.lang[ws] = <<"e","n">>,
            !.name[ws] = IF variant = "cm" THEN DefaultName(ws) ELSE None]

disconnect(R, ws) ==
  LET client == get_client_by_ws(R, ws)
  IN  IF client = None THEN R
      ELSE [R EXCEPT !.ac = IF InSeq(@, client) THEN RemoveFirst(@, client) ELSE @,
                     !.byid = @ \ {client},
                     !.groups = remove_from_all_lang_groups(@, client),
                     !.pi = IF @ = client THEN None ELSE @]

\* main.py's disconnect with the Pi reference cleared outside `if client'
disconnect_main_clears_pi(R, ws) ==
  LET client == get_client_by_ws(R, ws)
  IN  IF client # None
      THEN [R EXCEPT !.ac = RemoveFirst(@, client),
                     !.groups = remove_from_all_lang_groups(@, client),
                     !.byid = @ \ {client},
                     !.pi = None]
      ELSE [R EXCEPT !.pi = None]

\* main.py's disconnect: the same removals in another order
disconnect_main(R, ws) ==
  LET client == get_client_by_ws(R, ws)
  IN  IF client # None
      THEN [R EXCEPT !.ac = RemoveFirst(@, client),
                     !.groups = remove_from_all_lang_groups(@, client),
                     !.byid = @ \ {client},
                     !.pi = IF @ = client THEN None ELSE @]
      ELSE R

\* (new_lang or "").lower() or "en"
NormalizeLang(new_lang) ==
  LET low == Lower(IF new_lang = NoneLang THEN <<>> ELSE new_lang)
  IN  IF low = <<>> THEN <<"e","n">> ELSE low

\* update_client_lang without remove_from_all_lang_groups
update_client_lang_keeps_group(R, ws, new_lang, dname) ==
  LET client == get_client_by_ws(R, ws)
      new_lang_norm == NormalizeLang(new_lang)
      R1 == IF R.lang[client] # new_lang_norm
            THEN [R EXCEPT
                    !.groups = add_to_lang_group(@, client, new_lang_norm),
                    !.lang[client] = new_lang_norm]
            ELSE R
  IN  IF client = None THEN R
      ELSE IF dname # None /\ dname # "" /\ dname # R1.name[client]
      THEN [R1 EXCEPT !.name[client] = dname]
      ELSE R1

update_client_lang(R, ws, new_lang, dname) ==
  LET client == get_client_by_ws(R, ws)
      new_lang_norm == NormalizeLang(new_lang)
      R1 == IF R.lang[client] # new_lang_norm
            THEN [R EXCEPT
                    !.groups = add_to_lang_group(
                                 remove_from_all_lang_groups(@, client),
                                 client, new_lang_norm),
                    !.lang[client] = new_lang_norm]
            ELSE R
  IN  IF client = None THEN R
      ELSE IF dname # None /\ dname # "" /\ dname # R1.name[client]
      THEN [R1 EXCEPT !.name[client] = dname]
      ELSE R1

\* main.py's update_client_lang: the code is stored as given
update_client_lang_main(R, ws, new_lang) ==
  LET client == get_client_by_ws(R, ws)
  IN  IF client # None /\ R.lang[client] # new_lang
      THEN [R EXCEPT
              !.groups = add_to_lang_group(
                           remove_from_all_lang_groups(@, client),
                           client, new_lang),
              !.lang[client] = new_lang]
      ELSE R

Disconnect(R, ws) ==
  IF variant = "cm" THEN disconnect(R, ws) ELSE disconnect_main(R, ws)

UpdateClientLang(R, ws, new_lang) ==
  IF variant = "cm" THEN update_client_lang(R, ws, new_lang, None)
  ELSE update_client_lang_main(R, ws, new_lang)

-----------------------------------------------------------------------------
(* Translation.  `outcome' is what the DeepL call does when it is made:     *)
(* "ok" (it returns a text) or "fail" (it raises).                          *)

translate_text(text, target_lang, source_lang, outcome) ==
  LET deepl_source == _map_source_lang(source_lang)
      deepl_target == _map_target_lang(target_lang)
  IN  IF ~Truthy(text) THEN text
      ELSE IF ~translator THEN Untranslated(target_lang, text)
      ELSE IF /\ deepl_source # NoneLang
              /\ deepl_target # NoneLang
              /\ First2(deepl_source) = First2(deepl_target)
      THEN text
      ELSE IF outcome = "ok" THEN DeepL(text, deepl_source, deepl_target)
      ELSE Untranslated(deepl_target, text)

\* main.py's translate_text
translate_text_main(text, target_lang, source_lang, outcome) ==
  LET tgt == Upper(target_lang)
      src == Upper(source_lang)
  IN  IF tgt = src THEN text
      ELSE IF ~translator THEN Untranslated(tgt, text)
      ELSE IF outcome = "ok" THEN DeepL(text, src, tgt)
      ELSE Untranslated(tgt, text)

-----------------------------------------------------------------------------
(* Outbound payloads.  `to' is the websocket send_text is called on.        *)

NoText == [k |-> "none", t |-> "", src |-> <<>>, tgt |-> <<>>]

NoDisplay == [pfx |-> "", label |-> None, body |-> NoText]

build_display_text(role, source_label, target_label, text) ==
  IF role = "incoming" /\ source_label # None /\ source_label # ""
  THEN [pfx |-> "from", label |-> source_label, body |-> text]
  ELSE IF role = "outgoing" /\ target_label # None /\ target_label # ""
  THEN [pfx |-> "to", label |-> target_label, body |-> text]
  ELSE [pfx |-> "", label |-> None, body |-> text]

Payload(type, to) ==
  [type |-> type, to |-> to,
   source_id |-> None, target_id |-> None,
   source_display_name |-> None, target_display_name |-> None,
   source_lang |-> NoneLang, target_lang |-> NoneLang,
   original_text |-> NoText, translated_text |-> NoText,
   display_text |-> NoDisplay, text |-> <<>>,
   client_id |-> None, lang |-> NoneLang, is_pi |-> FALSE]

\* HelloPayload (connection_manager.py) or the hello dict (main.py)
HelloPayload(R, client, pi) ==
  [Payload("hello", client) EXCEPT
     !.client_id = client,
     !.lang = R.lang[client],
     !.source_display_name = R.name[client],
     !.is_pi = pi]

\* set_lang_msg of the endpoint
SetLangMsg(R, ws, new_lang) ==
  [Payload("set_lang", ws) EXCEPT
     !.lang = new_lang,
     !.client_id = get_client_by_ws(R, ws)]

\* "Unknown message type", word by word
ErrorText == <<"Unknown", "message", "type">>

\* an error payload that carries no text
ErrorPayloadNoText(ws) == Payload("error", ws)

\* error_payload of the endpoint
ErrorPayload(ws) == [Payload("error", ws) EXCEPT !.text = ErrorText]

\* the member names of the enum MessageType and their values
MessageType ==
  { <<"HELLO", "hello">>, <<"SET_LANG", "set_lang">>, <<"CHAT", "chat">>,
    <<"PERSONAL_CHAT", "personal_chat">>, <<"ERROR", "error">>,
    <<"HEARTBEAT", "heartbeat">> }

\* MessageType.<name>: the value, or None where Python raises AttributeError
MessageTypeAttr(name) ==
  IF \E p \in MessageType : p[1] = name
  THEN (CHOOSE p \in MessageType : p[1] = name)[2]
  ELSE None

\* payload_target of send_personal_message_by_id
IncomingPayload(t) ==
  IF variant = "cm"
  THEN [Payload(t.mtype, t.cur) EXCEPT
          !.source_id = t.src,
          !.target_id = t.cur,
          !.source_lang = t.src_lang,
          !.target_lang = t.tgt_lang,
          !.source_display_name = t.src_label,
          !.target_display_name = t.tgt_label,
          !.original_text = t.text,
          !.translated_text = t.tr,
          !.display_text =
             build_display_text("incoming", t.src_label, t.tgt_label, t.tr)]
  ELSE [Payload("chat", t.cur) EXCEPT
          !.source_id = t.src,
          !.target_id = t.cur,
          !.source_lang = t.src_lang,
          !.target_lang = t.tgt_lang,
          !.original_text = t.text,
          !.translated_text = t.tr,
          !.display_text = build_display_text("incoming", t.src, t.cur, t.tr)]

\* payload_source of send_personal_message_by_id
OutgoingPayload(t) ==
  IF variant = "cm"
  THEN [Payload(t.mtype, t.echo) EXCEPT
          !.source_id = t.src,
          !.target_id = t.cur,
          !.source_lang = t.src_lang,
          !.target_lang = t.tgt_lang,
          !.source_display_name = t.src_label,
          !.target_display_name = t.tgt_label,
          !.original_text = t.text,
          !.translated_text = t.tr,
          !.display_text =
             build_display_text("outgoing", t.src_label, t.tgt_label, t.tr)]
  ELSE [Payload("chat", t.echo) EXCEPT
          !.source_id = t.src,
          !.target_id = t.cur,
          !.source_lang = t.src_lang,
          !.target_lang = t.tgt_lang,
          !.original_text = t.text,
          !.translated_text = t.tr,
          !.display_text = build_display_text("outgoing", t.src, t.cur, t.tr)]

\* ChatPayload of broadcast_chat_from_ws (connection_manager.py)
ChatPayload(t, translated_text) ==
  [Payload("chat", t.cur) EXCEPT
     !.source_id = t.src,
     !.target_id = t.cur,
     !.source_lang = t.src_lang,
     !.target_lang = t.tgt_lang,
     !.source_display_name = t.src_label,
     !.target_display_name = t.tgt_label,
     !.original_text = t.text,
     !.translated_text = translated_text,
     !.display_text =
        build_display_text("incoming", t.src_label, t.tgt_label, translated_text)]

\* payload dict of broadcast_chat_from_ws (main.py): no translation, ids as labels
ChatPayloadMain(t) ==
  [Payload("chat", t.cur) EXCEPT
     !.source_id = t.src,
     !.target_id = t.cur,
     !.original_text = t.text,
     !.translated_text = t.text,
     !.display_text = build_display_text("incoming", t.src, t.cur, t.text)]

-----------------------------------------------------------------------------
(* The endpoint coroutines.  pc is the await each one is suspended at; the  *)
(* code between two awaits is one action.  An await on the coroutine's own  *)
(* websocket whose interleavings no other coroutine can observe is taken    *)
(* together with the code before it (the hello send with the registration,  *)
(* the close of a refused Pi with the receive that follows it).             *)
(*   pc: "idle"      websocket_endpoint not yet called for this websocket   *)
(*       "accept"    in connect, at `await websocket.accept()'              *)
(*       "reject"    in connect, at the accept/close of a refused Pi        *)
(*       "recv"      at `await websocket.receive_text()'                    *)
(*       "reply"     at the send_text of a set_lang ack or an error         *)
(*       "chat_tr"   in broadcast_chat_from_ws, at `await asyncio.to_thread'*)
(*       "chat_send" in broadcast_chat_from_ws, at `await send_text'        *)
(*       "pm_tr"     in send_personal_message_from_ws, at `asyncio.to_thread'*)
(*       "pm_target" in send_personal_message_by_id, at the send to target  *)
(*       "pm_echo"   in send_personal_message_by_id, at the echo to source  *)
(*       "hs_asr"    in handle_headset_audio_from_ws, at `asyncio.to_thread'*)
(*       "hp_tr"     in send_message_to_pi_from_ws, at `asyncio.to_thread'  *)
(*       "returned"  the handler has returned to `while True'               *)
(*       "raised"    an exception of a handler is unwinding                 *)
(*       "ended"     returned through `except WebSocketDisconnect'          *)
(*       "crashed"   left by an exception the endpoint does not catch       *)

\* Raw "lang" values of set_lang frames
RawLangs == { <<"E","S">>, <<"e","n","-","g","b">> }

\* Raw "lang" values of set_lang frames as clients may type them: another
\* letter case, empty, blanks only
LangInputs ==
  { <<"E","N">>, <<"e","s">>, <<>>, <<" ">> }

\* "text" values of chat frames
Texts == { Plain("hi"), Plain("") }

ConnOrder == <<"w1", "w2", "w3">>

ConfigVars == <<variant, translator>>

RegVars ==
  <<active_connections, clients_by_id, lang_groups, pi_client_id,
    preferred_lang, display_name>>

IdleTask ==
  [kind |-> "none", text |-> NoText, src |-> None, src_lang |-> NoneLang,
   src_label |-> None, i |-> 0, cur |-> None, tgt_lang |-> NoneLang,
   tgt_label |-> None, out |-> Payload("none", None), sent |-> <<>>,
   changed |-> FALSE, exc |-> "none",
   tr |-> NoText, echo |-> None, mtype |-> "none", audio |-> <<>>]

\* send_heartbeat at its first asyncio.sleep(1); tick, snap, stayed and
\* changed are bookkeeping no code reads: the parity of the ticks begun, the
\* list when the tick began, its sessions found in the list at every step
\* since, and whether some step found another list
IdleHeartbeat ==
  [pc |-> "sleep", tick |-> 0, msg |-> 0, i |-> 0, cur |-> None, sent |-> <<>>,
   snap |-> <<>>, stayed |-> {}, changed |-> FALSE, failed |-> FALSE]

\* no POST /subtitle is being served.  In the record, size is the size of
\* lang_groups when the .items() iterator was made, k the number of entries
\* still in the dict that the iterator has reached (the last of them is the
\* current one while alive), lang the current key, j the index of the list
\* iterator over the current group, one the locals of a POST /subtitle_one
IdleSubtitle ==
  [pc |-> "idle", text |-> NoText, source_lang |-> NoneLang,
   source_client_id |-> None, size |-> 0, k |-> 0, alive |-> FALSE,
   lang |-> NoneLang, j |-> 0, tr |-> NoText, out |-> Payload("none", None),
   sent |-> <<>>, exc |-> "none", one |-> IdleTask]

\* no language code is being mapped
NoLangCall == [lang |-> NoneLang, source |-> <<>>, target |-> <<>>]

\* manager = ConnectionManager(), before any connection
InitManager ==
  /\ active_connections = <<>>
  /\ clients_by_id = {}
  /\ lang_groups = <<>>
  /\ pi_client_id = None
  /\ preferred_lang = [c \in Conns |-> NoneLang]
  /\ display_name = [c \in Conns |-> None]
  /\ is_pi = [c \in Conns |-> FALSE]
  /\ closed = {}
  /\ pc = [c \in Conns |-> "idle"]
  /\ task = [c \in Conns |-> IdleTask]
  /\ msgs = 0
  /\ heartbeat = IdleHeartbeat
  /\ subtitle = IdleSubtitle

InitState ==
  /\ InitManager
  /\ lang_call = NoLangCall

\* The dict iterator of a suspended broadcast_translated when lang_groups
\* goes from its value in Reg to R2.groups: the entries before its position
\* stay there unless deleted (a dict keeps insertion order and a new key is
\* put behind every entry; no operation deletes a key and inserts it again),
\* and the list it took from the current entry is the group's list until
\* the entry is deleted
IterTouch(s, R2) ==
  IF s.pc \in {"tr", "send"}
  THEN [s EXCEPT
          !.k = Cardinality({i \in 1..s.k : HasKey(R2.groups, lang_groups[i].lang)}),
          !.alive = s.alive /\ HasKey(R2.groups, s.lang)]
  ELSE s

SetReg(R) ==
  /\ subtitle' = IterTouch(subtitle, R)
  /\ active_connections' = R.ac
  /\ clients_by_id' = R.byid
  /\ lang_groups' = R.groups
  /\ pi_client_id' = R.pi
  /\ preferred_lang' = R.lang
  /\ display_name' = R.name

\* The fan-outs of other coroutines that are suspended, or not yet back at
\* receive_text, while c changes the registry from Reg to R2 (bookkeeping:
\* `changed' is read by no code).
Touch(T, c, R2) ==
  [d \in Conns |->
     IF /\ d # c
        /\ pc[d] \in {"chat_tr", "chat_send", "returned", "raised",
                     "pm_tr", "pm_target", "pm_echo", "hs_asr", "hp_tr"}
        /\ R2 # Reg
     THEN [T[d] EXCEPT !.changed = TRUE]
     ELSE T[d]]

\* What send_text can do in c's coroutine on websocket `to': "ok" delivers;
\* on a websocket whose peer is gone it raises WebSocketDisconnect ("wsd") or
\* another exception ("exc"), depending on the installed starlette/uvicorn.
\* The peer of c's own websocket may go at the moment of the send.
SendOutcomes(c, to) ==
  IF to = c THEN {"ok", "wsd", "exc"}
  ELSE IF to \in closed THEN {"wsd", "exc"}
  ELSE {"ok"}

\* The fields of a ClientConnection no coroutine reads once it is out of the
\* registry
Forget(R, c) ==
  [R EXCEPT !.lang[c] = NoneLang, !.name[c] = None]

\* except WebSocketDisconnect: manager.disconnect(websocket)
Caught(c) ==
  /\ SetReg(Forget(Disconnect(Reg, c), c))
  /\ pc' = [pc EXCEPT ![c] = "ended"]
  /\ task' = [Touch(task, c, Disconnect(Reg, c)) EXCEPT ![c] = IdleTask]
  /\ closed' = closed \cup {c}
  /\ is_pi' = [is_pi EXCEPT ![c] = IF InSeq(active_connections, c) THEN FALSE ELSE @]
  /\ UNCHANGED <<ConfigVars, lang_call, heartbeat>>

\* any other exception leaves websocket_endpoint; the server drops the socket
Uncaught(c) ==
  /\ pc' = [pc EXCEPT ![c] = "crashed"]
  /\ task' = [task EXCEPT ![c] = IdleTask]
  /\ closed' = closed \cup {c}
  /\ UNCHANGED <<ConfigVars, lang_call, heartbeat, is_pi, RegVars, subtitle>>

\* websocket_endpoint is called: role = query_params.get("role"), then the
\* part of connect before its first await
Endpoint(c, pi) ==
  /\ pc[c] = "idle"
  /\ \A i \in 1..Len(ConnOrder) :
        ConnOrder[i] = c => \A j \in 1..(i-1) : pc[ConnOrder[j]] # "idle"
  /\ is_pi' = [is_pi EXCEPT ![c] = pi]
  /\ pc' = [pc EXCEPT ![c] =
              IF variant = "cm" /\ pi /\ pi_client_id # None
              THEN "reject" ELSE "accept"]
  /\ UNCHANGED <<ConfigVars, lang_call, heartbeat, RegVars, subtitle, closed, task, msgs>>

\* await websocket.accept(); await websocket.close(code=4000); return; then
\* receive_text on the closed websocket raises: WebSocketDisconnect, handled
\* by manager.disconnect(websocket), or a RuntimeError
Reject(c, exc) ==
  /\ pc[c] = "reject"
  /\ IF exc = "wsd" THEN Caught(c) ELSE Uncaught(c)
  /\ UNCHANGED msgs

\* connect, from the return of accept to the send of the hello, which is
\* awaited outside the endpoint's try
Accept(c, outcome) ==
  /\ pc[c] = "accept"
  /\ LET R2 == register(Reg, c, is_pi[c])
     IN  /\ SetReg(R2)
         /\ task' = Touch(task, c, R2)
  /\ pc' = [pc EXCEPT ![c] = IF outcome = "ok" THEN "recv" ELSE "crashed"]
  /\ closed' = IF outcome = "ok" THEN closed ELSE closed \cup {c}
  /\ UNCHANGED <<ConfigVars, lang_call, heartbeat, is_pi, msgs>>

\* the peer drops the connection while the endpoint waits for a frame
ClientClose(c) ==
  /\ pc[c] = "recv"
  /\ c \notin closed
  /\ closed' = closed \cup {c}
  /\ UNCHANGED <<ConfigVars, lang_call, heartbeat, is_pi, RegVars, subtitle, pc, task, msgs>>

\* the peer drops the connection and receive_text raises WebSocketDisconnect,
\* with no send to this websocket in between
PeerGone(c) ==
  /\ pc[c] = "recv"
  /\ c \notin closed
  /\ Caught(c)
  /\ UNCHANGED msgs

\* receive_text raises WebSocketDisconnect
RecvDisconnect(c) ==
  /\ pc[c] = "recv"
  /\ c \in closed
  /\ Caught(c)
  /\ UNCHANGED msgs

\* a receive_text that hands over a frame while a handler of the same
\* connection is still suspended
FrameWhileBusy(c) ==
  /\ pc[c] \notin {"idle", "accept", "reject", "ended", "crashed"}
  /\ c \notin closed
  /\ msgs < MaxMsgs
  /\ msgs' = msgs + 1

\* `raw = await websocket.receive_text()' at the head of `while True'
\* returns a frame
Frame(c) ==
  /\ pc[c] = "recv"
  /\ c \notin closed
  /\ msgs < MaxMsgs
  /\ msgs' = msgs + 1

\* a frame that json.loads rejects, or whose JSON value has no .get
RecvMalformed(c) ==
  /\ Frame(c)
  /\ Uncaught(c)

\* {"type": "set_lang", "lang": raw}
RecvSetLang(c, raw) ==
  /\ Frame(c)
  /\ LET R2 == UpdateClientLang(Reg, c, raw)
     IN  /\ SetReg(R2)
         /\ task' = [Touch(task, c, R2) EXCEPT
                       ![c] = [IdleTask EXCEPT !.kind = "set_lang",
                                               !.out = SetLangMsg(R2, c, raw)]]
  /\ pc' = [pc EXCEPT ![c] = "reply"]
  /\ UNCHANGED <<ConfigVars, lang_call, heartbeat, is_pi, closed>>

\* a frame of any other type
RecvUnknown(c) ==
  /\ Frame(c)
  /\ task' = [task EXCEPT ![c] = [IdleTask EXCEPT !.kind = "error",
                                                  !.out = ErrorPayload(c)]]
  /\ pc' = [pc EXCEPT ![c] = "reply"]
  /\ UNCHANGED <<ConfigVars, lang_call, heartbeat, is_pi, RegVars, subtitle, closed>>

\* the send of the ack or of the error returns or raises
ReplySent(c, outcome) ==
  /\ pc[c] = "reply"
  /\ outcome \in SendOutcomes(c, task[c].out.to)
  /\ CASE outcome = "ok" ->
            /\ pc' = [pc EXCEPT ![c] = "recv"]
            /\ task' = [task EXCEPT ![c] = IdleTask]
            /\ UNCHANGED <<ConfigVars, lang_call, heartbeat, is_pi, RegVars, subtitle, closed>>
       [] outcome = "wsd" -> Caught(c)
       [] OTHER -> Uncaught(c)
  /\ UNCHANGED msgs

\* The list iterator of `for client in self.active_connections': after i
\* elements, the next element of the list as it is now that is not the
\* sender (0: the iterator is exhausted).
NextReceiver(ac, i, src) ==
  LET S == {j \in (i+1)..Len(ac) : ac[j] # src}
  IN  IF S = {} THEN 0 ELSE CHOOSE j \in S : \A k \in S : j <= k

\* broadcast_chat_from_ws from the loop head to its next await, or to its
\* return: the new pc and locals
ChatNext(t, R) ==
  LET j == NextReceiver(R.ac, t.i, t.src)
      t2 == [t EXCEPT !.i = j, !.cur = R.ac[j],
                      !.tgt_lang = R.lang[R.ac[j]],
                      !.tgt_label = R.name[R.ac[j]]]
      t3 == [t EXCEPT !.i = j, !.cur = R.ac[j]]
  IN  IF j = 0 THEN [pc |-> "returned", task |-> t]
      ELSE IF variant = "cm" THEN [pc |-> "chat_tr", task |-> t2]
      ELSE [pc |-> "chat_send", task |-> [t3 EXCEPT !.out = ChatPayloadMain(t3)]]

\* {"type": "chat", "text": text}
RecvChat(c, text) ==
  /\ Frame(c)
  /\ LET src == get_client_by_ws(Reg, c)
         t0 == [IdleTask EXCEPT
                  !.kind = "chat", !.text = text, !.src = src,
                  !.src_lang = IF variant = "cm" THEN preferred_lang[src] ELSE NoneLang,
                  !.src_label = IF variant = "cm" THEN display_name[src] ELSE None]
         n == ChatNext(t0, Reg)
     IN  /\ pc' = [pc EXCEPT ![c] = n.pc]
         /\ task' = [task EXCEPT ![c] = n.task]
  /\ UNCHANGED <<ConfigVars, lang_call, heartbeat, is_pi, RegVars, subtitle, closed>>

\* asyncio.to_thread(self.translate_text, ...) returns
ChatTranslated(c, outcome) ==
  /\ pc[c] = "chat_tr"
  /\ LET t == task[c]
     IN  task' = [task EXCEPT ![c] =
                    [t EXCEPT !.out =
                       ChatPayload(t, translate_text(t.text, t.tgt_lang,
                                                     t.src_lang, outcome))]]
  /\ pc' = [pc EXCEPT ![c] = "chat_send"]
  /\ UNCHANGED <<ConfigVars, lang_call, heartbeat, is_pi, RegVars, subtitle, closed, msgs>>

Sent(t) == [t EXCEPT !.sent = Append(@, t.out)]

\* client.websocket.send_text(...) returns or raises
ChatSent(c, outcome) ==
  /\ pc[c] = "chat_send"
  /\ outcome \in SendOutcomes(c, task[c].out.to)
  /\ IF outcome = "ok"
     THEN LET n == ChatNext(Sent(task[c]), Reg)
          IN  /\ pc' = [pc EXCEPT ![c] = n.pc]
              /\ task' = [task EXCEPT ![c] = n.task]
     ELSE /\ pc' = [pc EXCEPT ![c] = "raised"]
          /\ task' = [task EXCEPT ![c].exc = outcome]
  /\ UNCHANGED <<ConfigVars, lang_call, heartbeat, is_pi, RegVars, subtitle, closed, msgs>>

\* back at the head of `while True'
Loop(c) ==
  /\ pc[c] = "returned"
  /\ pc' = [pc EXCEPT ![c] = "recv"]
  /\ task' = [task EXCEPT ![c] = IdleTask]
  /\ UNCHANGED <<ConfigVars, lang_call, heartbeat, is_pi, RegVars, subtitle, closed, msgs>>

\* the exception reaches the endpoint's try/except
Except(c) ==
  /\ pc[c] = "raised"
  /\ IF task[c].exc = "wsd" THEN Caught(c) ELSE Uncaught(c)
  /\ UNCHANGED msgs

-----------------------------------------------------------------------------
(* 1-to-1 messages.  In task: src is source_client_id, cur is              *)
(* target_client_id, tr is translated_text, echo is source_client.          *)

\* The handlers of connection_manager.py for personal_chat and headset_audio
\* frames have no caller in the sources: its endpoint hands a frame of these
\* types to send_personal_message_from_ws and handle_headset_audio_from_ws
\* with the websocket the frame was read on.
ManagerDispatch == variant = "cm"

\* send_personal_message_by_id, step 2 up to its await, or the return
PersonalEcho(t) ==
  IF t.echo # None
  THEN [pc |-> "pm_echo", task |-> [t EXCEPT !.out = OutgoingPayload(t)]]
  ELSE [pc |-> "returned", task |-> t]

\* send_personal_message_by_id from its call to its first await or to its
\* return.  The display names it reads later are those of the objects it
\* looks up here.
PersonalStart(t, R) ==
  LET target == get_client_by_id(R, t.cur)
      source_client == IF t.src # None THEN get_client_by_id(R, t.src) ELSE None
      t1 == [t EXCEPT
               !.echo = source_client,
               !.src_label = IF source_client # None THEN R.name[source_client]
                             ELSE t.src,
               !.tgt_label = IF target # None THEN R.name[target] ELSE t.cur]
      \* the incoming payload is built with target_label = target.display_name,
      \* the outgoing one with source_label = source_client.display_name
      t2 == [t1 EXCEPT !.out = IncomingPayload(t1)]
  IN  IF target # None THEN [pc |-> "pm_target", task |-> t2]
      ELSE PersonalEcho(t1)

\* {"type": "personal_chat", "text": text, "from_client_id": from,
\*  "to_client_id": to}: main.py hands the ids of the body to
\* send_personal_message_by_id; with connection_manager.py the frame goes to
\* send_personal_message_from_ws, which takes the sender from the websocket
RecvPersonal(c, from, to, text) ==
  /\ Frame(c)
  /\ LET t0 == [IdleTask EXCEPT !.kind = "personal", !.text = text, !.cur = to]
         tm == [t0 EXCEPT !.src = from, !.tr = text, !.mtype = "chat"]
         source_client == get_client_by_ws(Reg, c)
         target_client == get_client_by_id(Reg, to)
         tc == [t0 EXCEPT !.src = source_client,
                          !.src_lang = preferred_lang[source_client],
                          !.tgt_lang = preferred_lang[target_client],
                          !.mtype = MessageTypeAttr("PERSONAL_CHAT")]
         n == IF ~ManagerDispatch THEN PersonalStart(tm, Reg)
              ELSE IF source_client = None \/ target_client = None
              THEN [pc |-> "returned", task |-> t0]
              ELSE [pc |-> "pm_tr", task |-> tc]
     IN  /\ pc' = [pc EXCEPT ![c] = n.pc]
         /\ task' = [task EXCEPT ![c] = n.task]
  /\ UNCHANGED <<ConfigVars, lang_call, heartbeat, is_pi, RegVars, subtitle, closed>>

\* asyncio.to_thread(self.translate_text, ...) of send_personal_message_from_ws
\* returns
PersonalTranslated(c, outcome) ==
  /\ pc[c] = "pm_tr"
  /\ LET t == task[c]
         t1 == [t EXCEPT !.tr = translate_text(t.text, t.tgt_lang, t.src_lang,
                                               outcome)]
         n == PersonalStart(t1, Reg)
     IN  /\ pc' = [pc EXCEPT ![c] = n.pc]
         /\ task' = [task EXCEPT ![c] = n.task]
  /\ UNCHANGED <<ConfigVars, lang_call, heartbeat, is_pi, RegVars, subtitle, closed, msgs>>

\* a send_text of send_personal_message_by_id returns or raises
PersonalSent(c, outcome) ==
  /\ pc[c] \in {"pm_target", "pm_echo"}
  /\ outcome \in SendOutcomes(c, task[c].out.to)
  /\ IF outcome = "ok"
     THEN LET n == IF pc[c] = "pm_target" THEN PersonalEcho(Sent(task[c]))
                   ELSE [pc |-> "returned", task |-> Sent(task[c])]
          IN  /\ pc' = [pc EXCEPT ![c] = n.pc]
              /\ task' = [task EXCEPT ![c] = n.task]
     ELSE /\ pc' = [pc EXCEPT ![c] = "raised"]
          /\ task' = [task EXCEPT ![c].exc = outcome]
  /\ UNCHANGED <<ConfigVars, lang_call, heartbeat, is_pi, RegVars, subtitle, closed, msgs>>

-----------------------------------------------------------------------------
(* Headset audio -> ASR -> text -> Pi (connection_manager.py only; main.py  *)
(* has no branch for the type and answers it as an unknown type).           *)

\* a strip() that leaves the blanks where they are
StripKeepsBlanks(s) == s

\* str.strip() on a sequence of characters
Strip(s) ==
  LET I == {i \in 1..Len(s) : s[i] # " "}
      lo == CHOOSE i \in I : \A j \in I : i <= j
      hi == CHOOSE i \in I : \A j \in I : j <= i
  IN  IF I = {} THEN <<>> ELSE SubSeq(s, lo, hi)

\* result.get("text") of model.transcribe: None, blank, or words in blanks
AsrResults == { NoneLang, <<" ", " ">>, <<" ", "g", "o", " ">> }

\* the str with the characters s, as a text
Str(s) ==
  IF s = <<>> THEN Plain("")
  ELSE IF s = <<"g", "o">> THEN Plain("go")
  ELSE Plain("?")

\* AsrService.transcribe_wav_bytes: (result.get("text") or "").strip()
transcribe_wav_bytes(result) ==
  Strip(IF result = NoneLang THEN <<>> ELSE result)

\* send_message_to_pi_from_ws from its call to its await or its return
ToPiStart(t, R, c) ==
  LET source_client == get_client_by_ws(R, c)
      pi_client == get_client_by_id(R, R.pi)
      t1 == [t EXCEPT !.src = source_client,
                      !.src_lang = R.lang[source_client],
                      !.cur = pi_client,
                      !.tgt_lang = R.lang[pi_client]]
  IN  IF R.pi = None \/ source_client = None \/ pi_client = None
      THEN [pc |-> "returned", task |-> t]
      ELSE [pc |-> "hp_tr", task |-> t1]

\* {"type": "headset_audio", "audio_b64": ...}, where Whisper hears `result'
\* in the audio
RecvHeadset(c, result) ==
  /\ Frame(c)
  /\ LET t0 == [IdleTask EXCEPT !.kind = "headset", !.audio = result]
         te == [t0 EXCEPT !.out = ErrorPayload(c)]
     IN  IF ~ManagerDispatch
         THEN /\ pc' = [pc EXCEPT ![c] = "reply"]
              /\ task' = [task EXCEPT ![c] = te]
         ELSE IF pi_client_id = None \/ get_client_by_ws(Reg, c) = None
         THEN /\ pc' = [pc EXCEPT ![c] = "returned"]
              /\ task' = [task EXCEPT ![c] = t0]
         ELSE /\ pc' = [pc EXCEPT ![c] = "hs_asr"]
              /\ task' = [task EXCEPT ![c] = t0]
  /\ UNCHANGED <<ConfigVars, lang_call, heartbeat, is_pi, RegVars, subtitle, closed>>

\* asyncio.to_thread(self.asr_service.transcribe_b64_wav, ...) returns the
\* transcript of the audio, or raises (b64decode or Whisper failed)
HeadsetTranscribed(c, outcome) ==
  /\ pc[c] = "hs_asr"
  /\ IF outcome = "raise"
     THEN /\ pc' = [pc EXCEPT ![c] = "raised"]
          /\ task' = [task EXCEPT ![c].exc = "exc"]
     ELSE LET recognized_text == Strip(transcribe_wav_bytes(task[c].audio))
              t1 == [task[c] EXCEPT !.text = Str(recognized_text)]
              n == IF recognized_text = <<>>
                   THEN [pc |-> "returned", task |-> task[c]]
                   ELSE ToPiStart(t1, Reg, c)
          IN  /\ pc' = [pc EXCEPT ![c] = n.pc]
              /\ task' = [task EXCEPT ![c] = n.task]
  /\ UNCHANGED <<ConfigVars, lang_call, heartbeat, is_pi, RegVars, subtitle, closed, msgs>>

\* asyncio.to_thread(self.translate_text, ...) of send_message_to_pi_from_ws
\* returns; the arguments of send_personal_message_by_id are evaluated, among
\* them MessageType.HEADSET_TO_PI
HeadsetTranslated(c, outcome) ==
  /\ pc[c] = "hp_tr"
  /\ LET t == task[c]
         message_type == MessageTypeAttr("HEADSET_TO_PI")
         t1 == [t EXCEPT !.tr = translate_text(t.text, t.tgt_lang, t.src_lang,
                                               outcome),
                         !.mtype = message_type]
         n == IF message_type = None
              THEN [pc |-> "raised", task |-> [t EXCEPT !.exc = "exc"]]
              ELSE PersonalStart(t1, Reg)
     IN  /\ pc' = [pc EXCEPT ![c] = n.pc]
         /\ task' = [task EXCEPT ![c] = n.task]
  /\ UNCHANGED <<ConfigVars, lang_call, heartbeat, is_pi, RegVars, subtitle, closed, msgs>>

\* {"type": "set_lang"} with no "lang": data.get("lang", "en")
RecvSetLangDefault(c) == RecvSetLang(c, <<"e", "n">>)

-----------------------------------------------------------------------------
(* The heartbeat task (send_heartbeat, started once at startup).            *)
(*   heartbeat.pc: "sleep"    at `await asyncio.sleep(1)'                   *)
(*                 "send"     in broadcast_raw, at `await send_text'         *)
(*                 "backoff"  in `except Exception', at asyncio.sleep(5)     *)

\* random.randint(1000, 9999), at its two ends
Nonces == {1000, 9999}

Elems(seq) == {seq[i] : i \in 1..Len(seq)}

\* what a step of the heartbeat finds in the registry (bookkeeping)
Observe(h, ac) ==
  [h EXCEPT !.changed = @ \/ ac # h.snap,
            !.stayed = @ \cap Elems(ac)]

\* a broadcast_raw whose list iterator passes over an element
RawNextSkips(h, ac) ==
  IF h.i + 2 <= Len(ac)
  THEN [h EXCEPT !.pc = "send", !.i = h.i + 2, !.cur = ac[h.i + 2]]
  ELSE [h EXCEPT !.pc = "sleep"]

\* broadcast_raw from the head of its for loop to its next await, or through
\* its return to the sleep of the next iteration of `while True'
RawNext(h, ac) ==
  IF h.i + 1 <= Len(ac)
  THEN [h EXCEPT !.pc = "send", !.i = h.i + 1, !.cur = ac[h.i + 1]]
  ELSE [h EXCEPT !.pc = "sleep"]

\* asyncio.sleep(1) returns: heartbeat_msg is built once, and broadcast_raw
\* is called if the list is not empty
HeartbeatTick(n) ==
  /\ heartbeat.pc = "sleep"
  /\ LET h0 == [IdleHeartbeat EXCEPT
                  !.tick = 1 - heartbeat.tick,
                  !.msg = n,
                  !.snap = active_connections,
                  !.stayed = Elems(active_connections)]
     IN  heartbeat' = IF active_connections # <<>>
                      THEN RawNext(h0, active_connections)
                      ELSE h0
  /\ UNCHANGED <<ConfigVars, lang_call, is_pi, RegVars, subtitle, closed, pc, task, msgs>>

\* a heartbeat send that stops the task for good
HeartbeatSentOrDies(outcome) ==
  /\ heartbeat.pc = "send"
  /\ outcome \in SendOutcomes(None, heartbeat.cur)
  /\ heartbeat' =
       IF outcome = "ok"
       THEN RawNext(Observe([heartbeat EXCEPT
                               !.sent = Append(@, [to |-> heartbeat.cur,
                                                   msg |-> heartbeat.msg])],
                            active_connections),
                    active_connections)
       ELSE [Observe(heartbeat, active_connections) EXCEPT
               !.pc = "dead", !.failed = TRUE]
  /\ UNCHANGED <<ConfigVars, lang_call, is_pi, RegVars, subtitle, closed, pc, task, msgs>>

\* client.websocket.send_text(message) of broadcast_raw returns, or raises:
\* WebSocketDisconnect and every other error of a send are Exceptions, and
\* `except Exception' of send_heartbeat catches them
HeartbeatSent(outcome) ==
  /\ heartbeat.pc = "send"
  /\ outcome \in SendOutcomes(None, heartbeat.cur)
  /\ heartbeat' =
       IF outcome = "ok"
       THEN RawNext(Observe([heartbeat EXCEPT
                               !.sent = Append(@, [to |-> heartbeat.cur,
                                                   msg |-> heartbeat.msg])],
                            active_connections),
                    active_connections)
       ELSE [Observe(heartbeat, active_connections) EXCEPT
               !.pc = "backoff", !.failed = TRUE]
  /\ UNCHANGED <<ConfigVars, lang_call, is_pi, RegVars, subtitle, closed, pc, task, msgs>>

\* asyncio.sleep(5) of the except clause returns; back to `while True'
HeartbeatBackoff ==
  /\ heartbeat.pc = "backoff"
  /\ heartbeat' = [heartbeat EXCEPT !.pc = "sleep"]
  /\ UNCHANGED <<ConfigVars, lang_call, is_pi, RegVars, subtitle, closed, pc, task, msgs>>

-----------------------------------------------------------------------------
(* POST /subtitle (main.py): broadcast_translated.                          *)
(*   subtitle.pc: "idle"    no request is being served                      *)
(*                "tr"      at `await asyncio.to_thread(translate_text)'     *)
(*                "send"    at `await client.websocket.send_text'            *)
(*                "done"    broadcast_translated has returned                *)
(*                "raised"  an exception is leaving broadcast_translated     *)

\* payload dict of broadcast_translated
SubtitlePayload(s, client) ==
  [Payload("chat", client) EXCEPT
     !.source_id = s.source_client_id,
     !.target_id = client,
     !.source_lang = s.source_lang,
     !.target_lang = s.lang,
     !.original_text = s.text,
     !.translated_text = s.tr,
     !.display_text =
        build_display_text("incoming", s.source_client_id, client, s.tr)]

\* next() of the iterator of self.lang_groups.items(): RuntimeError when the
\* dict has another size than when the iterator was made, else the entry
\* behind the ones reached, else the end of the loop
OuterNext(s, R) ==
  IF Len(R.groups) # s.size
  THEN [s EXCEPT !.pc = "raised", !.exc = "runtime"]
  ELSE IF s.k + 1 <= Len(R.groups)
  THEN [s EXCEPT !.pc = "tr", !.k = s.k + 1, !.alive = TRUE,
                 !.lang = R.groups[s.k + 1].lang, !.j = 0]
  ELSE [s EXCEPT !.pc = "done"]

\* `for client in clients': the list iterator over the list of the current
\* entry, which is empty once the entry is deleted; the originating client
\* is passed over
InnerNext(s, R) ==
  LET clients == IF s.alive THEN R.groups[s.k].members ELSE <<>>
      J == {j \in (s.j + 1)..Len(clients) :
              ~(s.source_client_id # None /\ clients[j] = s.source_client_id)}
      j == CHOOSE j \in J : \A m \in J : j <= m
  IN  IF J = {} THEN OuterNext(s, R)
      ELSE [s EXCEPT !.pc = "send", !.j = j,
                     !.out = SubtitlePayload(s, clients[j])]

\* POST /subtitle {text, source_lang, source_client_id}
SubtitlePost(text, source_lang, source_client_id) ==
  /\ subtitle.pc = "idle"
  /\ subtitle' = OuterNext([IdleSubtitle EXCEPT
                              !.text = text,
                              !.source_lang = source_lang,
                              !.source_client_id = source_client_id,
                              !.size = Len(lang_groups)],
                           Reg)
  /\ UNCHANGED <<ConfigVars, lang_call, heartbeat, is_pi, RegVars, closed, pc, task, msgs>>

\* asyncio.to_thread(self.translate_text, text, target_lang, source_lang)
\* returns
SubtitleTranslated(outcome) ==
  /\ subtitle.pc = "tr"
  /\ subtitle' =
       InnerNext([subtitle EXCEPT
                    !.tr = translate_text_main(subtitle.text, subtitle.lang,
                                               subtitle.source_lang, outcome)],
                 Reg)
  /\ UNCHANGED <<ConfigVars, lang_call, heartbeat, is_pi, RegVars, closed, pc, task, msgs>>

\* client.websocket.send_text(...) of broadcast_translated returns or raises
SubtitleSent(outcome) ==
  /\ subtitle.pc = "send"
  /\ outcome \in SendOutcomes(None, subtitle.out.to)
  /\ subtitle' =
       IF outcome = "ok"
       THEN InnerNext([subtitle EXCEPT !.sent = Append(@, subtitle.out)], Reg)
       ELSE [subtitle EXCEPT !.pc = "raised", !.exc = outcome]
  /\ UNCHANGED <<ConfigVars, lang_call, heartbeat, is_pi, RegVars, closed, pc, task, msgs>>

\* subtitle_broadcast returns its JSON body, or the exception becomes the
\* 500 response of the request
SubtitleReturn ==
  /\ subtitle.pc \in {"done", "raised"}
  /\ subtitle' = IdleSubtitle
  /\ UNCHANGED <<ConfigVars, lang_call, heartbeat, is_pi, RegVars, closed, pc, task, msgs>>

-----------------------------------------------------------------------------
(* POST /subtitle_one (main.py).  The handler calls manager.translate_text  *)
(* itself, not through asyncio.to_thread: the call runs on the thread of    *)
(* the event loop, and no other coroutine is resumed until it returns.      *)
(*   subtitle.pc: "one_tr"     inside the DeepL call of translate_text       *)
(*                "pm_target"  at the send_text to the target                *)
(*                "pm_echo"    at the send_text to the sender                *)
(*                "returned"   send_personal_message_by_id has returned      *)
(*                "raised"     an exception is leaving it                    *)

\* the thread of the event loop is inside a synchronous call of a coroutine
LoopBusy == subtitle.pc = "one_tr"

\* translate_text of main.py gets as far as translator.translate_text
CallsDeepL(target_lang, source_lang) ==
  translator /\ Upper(target_lang) # Upper(source_lang)

\* subtitle_one from send_personal_message_by_id on, with `translated'
OneSend(t, translated, R) ==
  LET n == PersonalStart([t EXCEPT !.tr = translated], R)
  IN  [IdleSubtitle EXCEPT !.pc = n.pc, !.one = n.task]

\* POST /subtitle_one {text, source_lang, target_lang, from_client_id,
\* to_client_id}
SubtitleOnePost(text, source_lang, target_lang, from_client_id, to_client_id) ==
  /\ subtitle.pc = "idle"
  /\ LET t == [IdleTask EXCEPT !.kind = "subtitle_one", !.text = text,
                               !.src = from_client_id, !.cur = to_client_id,
                               !.src_lang = source_lang,
                               !.tgt_lang = target_lang, !.mtype = "chat"]
     IN  subtitle' =
           IF CallsDeepL(target_lang, source_lang)
           THEN [IdleSubtitle EXCEPT !.pc = "one_tr", !.one = t]
           ELSE OneSend(t, translate_text_main(text, target_lang, source_lang,
                                               "ok"), Reg)
  /\ UNCHANGED <<ConfigVars, lang_call, heartbeat, is_pi, RegVars, closed, pc, task, msgs>>

\* translator.translate_text returns or raises inside translate_text
SubtitleOneTranslated(outcome) ==
  /\ subtitle.pc = "one_tr"
  /\ LET t == subtitle.one
     IN  subtitle' = OneSend(t, translate_text_main(t.text, t.tgt_lang,
                                                    t.src_lang, outcome), Reg)
  /\ UNCHANGED <<ConfigVars, lang_call, heartbeat, is_pi, RegVars, closed, pc, task, msgs>>

\* a send_text of send_personal_message_by_id returns or raises
SubtitleOneSent(outcome) ==
  /\ subtitle.pc \in {"pm_target", "pm_echo"}
  /\ outcome \in SendOutcomes(None, subtitle.one.out.to)
  /\ subtitle' =
       IF outcome = "ok"
       THEN LET n == IF subtitle.pc = "pm_target"
                     THEN PersonalEcho(Sent(subtitle.one))
                     ELSE [pc |-> "returned", task |-> Sent(subtitle.one)]
            IN  [subtitle EXCEPT !.pc = n.pc, !.one = n.task]
       ELSE [subtitle EXCEPT !.pc = "raised", !.one.exc = outcome]
  /\ UNCHANGED <<ConfigVars, lang_call, heartbeat, is_pi, RegVars, closed, pc, task, msgs>>

\* subtitle_one returns its JSON body, or the exception becomes the 500
\* response of the request
SubtitleOneReturn ==
  /\ subtitle.pc \in {"returned", "raised"}
  /\ subtitle.one.kind = "subtitle_one"
  /\ subtitle' = IdleSubtitle
  /\ UNCHANGED <<ConfigVars, lang_call, heartbeat, is_pi, RegVars, closed, pc, task, msgs>>

\* the coroutines of the connections: the steps of websocket_endpoint the
\* event loop can resume
EndpointStep ==
  /\ ~LoopBusy
  /\ \E c \in {"w1", "w2"} :
       \/ Endpoint(c, FALSE)
       \/ Accept(c, "ok")
       \/ PeerGone(c)
       \/ RecvUnknown(c)
       \/ ReplySent(c, "ok")

\* the heartbeat task: the steps of send_heartbeat the event loop can resume
HeartbeatStep ==
  /\ ~LoopBusy
  /\ \/ HeartbeatTick(1000)
     \/ \E outcome \in {"ok", "wsd"} : HeartbeatSent(outcome)
     \/ HeartbeatBackoff

\* the requests to /subtitle_one
SubtitleOneStep ==
  \/ \E from_client_id \in {None, "w1"}, to_client_id \in {"w2"},
        target_lang \in {<<"e","n">>, <<"e","s">>} :
       SubtitleOnePost(Plain("hi"), <<"e","n">>, target_lang,
                       from_client_id, to_client_id)
  \/ \E outcome \in {"ok", "fail"} : SubtitleOneTranslated(outcome)
  \/ \E outcome \in {"ok", "wsd"} : SubtitleOneSent(outcome)
  \/ SubtitleOneReturn

-----------------------------------------------------------------------------
(* Calls of the two language-code mappings, as translate_text makes them.   *)

\* the characters language codes are made of here: letters of either case,
\* a digit, the separator, a blank
CodeChars == {"e", "n", "E", "S", "z", "4", "-", " "}

\* every string of up to MaxCodeLen characters, and region codes as clients
\* send them
CodeInputs ==
  UNION {[1..n -> CodeChars] : n \in 0..MaxCodeLen}
    \cup { <<"e","n","-","U","S">>, <<"E","N","-","g","b">>,
           <<"e","s","-","4","1","9">>, <<"z","h","-","H","a","n","t">>,
           <<"p","t","-","B","R">>, <<"e","n","g","l","i","s","h">> }

\* deepl_source = self._map_source_lang(source_lang)
MapSource ==
  /\ Len(lang_call.source) < MaxCalls
  /\ lang_call' = [lang_call EXCEPT
                     !.source = Append(@, _map_source_lang(lang_call.lang))]
  /\ UNCHANGED <<ConfigVars, heartbeat, is_pi, RegVars, subtitle, closed, pc,
                 task, msgs>>

\* deepl_target = self._map_target_lang(target_lang)
MapTarget ==
  /\ Len(lang_call.target) < MaxCalls
  /\ lang_call' = [lang_call EXCEPT
                     !.target = Append(@, _map_target_lang(lang_call.lang))]
  /\ UNCHANGED <<ConfigVars, heartbeat, is_pi, RegVars, subtitle, closed, pc,
                 task, msgs>>

-----------------------------------------------------------------------------
(* Specifications. *)

\* Connections of either role, set_lang, unknown and undecodable frames.
\* No coroutine of this specification sends on another one's websocket, so
\* a peer that goes is seen at once by its own endpoint (PeerGone).
NextRegistry ==
  \E c \in Conns :
    \/ \E pi \in BOOLEAN : Endpoint(c, pi)
    \/ \E exc \in {"wsd", "exc"} : Reject(c, exc)
    \/ \E outcome \in {"ok", "exc"} : Accept(c, outcome)
    \/ PeerGone(c)
    \/ RecvMalformed(c)
    \/ \E raw \in RawLangs : RecvSetLang(c, raw)
    \/ RecvUnknown(c)
    \/ \E outcome \in {"ok", "wsd", "exc"} : ReplySent(c, outcome)

\* either ConnectionManager class; the registry code never reads translator
InitRegistry ==
  /\ variant \in {"cm", "main"}
  /\ translator = FALSE
  /\ InitState

SpecRegistry == InitRegistry /\ [][NextRegistry]_vars

\* Normal-role connections that come and go while the heartbeat task runs;
\* an endpoint may take any time to read that its peer has gone.
NextHeartbeat ==
  \/ \E c \in Conns :
       \/ Endpoint(c, FALSE)
       \/ Accept(c, "ok")
       \/ ClientClose(c)
       \/ RecvDisconnect(c)
  \/ \E n \in Nonces : HeartbeatTick(n)
  \/ \E outcome \in {"ok", "wsd", "exc"} : HeartbeatSent(outcome)
  \/ HeartbeatBackoff

\* either ConnectionManager class; broadcast_raw is the same in both
InitHeartbeat ==
  /\ variant \in {"cm", "main"}
  /\ translator = FALSE
  /\ InitState

SpecHeartbeat == InitHeartbeat /\ [][NextHeartbeat]_vars

\* The event loop runs every task that is ready: a sleep that is over, a
\* send that has returned or raised.
FairHeartbeat ==
  /\ WF_vars(\E n \in Nonces : HeartbeatTick(n))
  /\ WF_vars(\E outcome \in {"ok", "wsd", "exc"} : HeartbeatSent(outcome))
  /\ WF_vars(HeartbeatBackoff)

SpecHeartbeatFair == InitHeartbeat /\ [][NextHeartbeat]_vars /\ FairHeartbeat

\* Normal-role connections and set_lang frames while POST /subtitle requests
\* are served, one at a time.
NextSubtitle ==
  \/ \E c \in Conns :
       \/ Endpoint(c, FALSE)
       \/ Accept(c, "ok")
       \/ PeerGone(c)
       \/ \E raw \in RawLangs : RecvSetLang(c, raw)
       \/ ReplySent(c, "ok")
  \/ \E source_client_id \in {None, "w1"} :
       SubtitlePost(Plain("hi"), <<"e", "n">>, source_client_id)
  \/ \E outcome \in {"ok", "fail"} : SubtitleTranslated(outcome)
  \/ \E outcome \in {"ok", "wsd"} : SubtitleSent(outcome)
  \/ SubtitleReturn

\* main.py's ConnectionManager (the only one with broadcast_translated),
\* with DEEPL_API_KEY set
InitSubtitle ==
  /\ variant = "main"
  /\ translator = TRUE
  /\ InitState

SpecSubtitle == InitSubtitle /\ [][NextSubtitle]_vars

\* Normal-role connections and set_lang frames with the codes of LangInputs.
NextLang ==
  \E c \in Conns :
    \/ Endpoint(c, FALSE)
    \/ Accept(c, "ok")
    \/ PeerGone(c)
    \/ \E raw \in LangInputs : RecvSetLang(c, raw)
    \/ \E outcome \in {"ok", "wsd"} : ReplySent(c, outcome)

\* either ConnectionManager class; the registry code never reads translator
InitLang ==
  /\ variant \in {"cm", "main"}
  /\ translator = FALSE
  /\ InitState

SpecLang == InitLang /\ [][NextLang]_vars

\* Normal-role connections, set_lang with and without "lang", and 1-to-1
\* messages.
NextPersonal ==
  \E c \in Conns :
    \/ Endpoint(c, FALSE)
    \/ Accept(c, "ok")
    \/ PeerGone(c)
    \/ \E raw \in RawLangs : RecvSetLang(c, raw)
    \/ RecvSetLangDefault(c)
    \/ \E outcome \in {"ok", "wsd", "exc"} : ReplySent(c, outcome)
    \/ \E from \in Conns \cup {None}, to \in Conns \cup {None} :
         RecvPersonal(c, from, to, Plain("hi"))
    \/ \E outcome \in {"ok", "fail"} : PersonalTranslated(c, outcome)
    \/ \E outcome \in {"ok", "wsd", "exc"} : PersonalSent(c, outcome)
    \/ Loop(c)
    \/ Except(c)

\* either ConnectionManager class, with DEEPL_API_KEY set
InitPersonal ==
  /\ variant \in {"cm", "main"}
  /\ translator = TRUE
  /\ InitState

SpecPersonal == InitPersonal /\ [][NextPersonal]_vars

\* Connections of either role and headset audio.
NextHeadset ==
  \E c \in Conns :
    \/ \E pi \in BOOLEAN : Endpoint(c, pi)
    \/ Reject(c, "wsd")
    \/ Accept(c, "ok")
    \/ PeerGone(c)
    \/ \E outcome \in {"ok", "wsd", "exc"} : ReplySent(c, outcome)
    \/ \E result \in AsrResults : RecvHeadset(c, result)
    \/ \E outcome \in {"ok", "raise"} : HeadsetTranscribed(c, outcome)
    \/ \E outcome \in {"ok", "fail"} : HeadsetTranslated(c, outcome)
    \/ Loop(c)
    \/ Except(c)

\* either ConnectionManager class, with DEEPL_API_KEY set
InitHeadset ==
  /\ variant \in {"cm", "main"}
  /\ translator = TRUE
  /\ InitState

SpecHeadset == InitHeadset /\ [][NextHeadset]_vars

\* Normal-role connections, set_lang and chat broadcasts; a peer may be gone
\* for a while before its endpoint reads the disconnect.
NextChat ==
  \E c \in Conns :
    \/ Endpoint(c, FALSE)
    \/ Accept(c, "ok")
    \/ ClientClose(c)
    \/ RecvDisconnect(c)
    \/ \E raw \in RawLangs : RecvSetLang(c, raw)
    \/ \E outcome \in {"ok", "wsd", "exc"} : ReplySent(c, outcome)
    \/ \E text \in Texts : RecvChat(c, text)
    \/ \E outcome \in {"ok", "fail"} : ChatTranslated(c, outcome)
    \/ \E outcome \in {"ok", "wsd", "exc"} : ChatSent(c, outcome)
    \/ Loop(c)
    \/ Except(c)

\* either ConnectionManager class, with or without DEEPL_API_KEY
InitChat ==
  /\ variant \in {"cm", "main"}
  /\ translator \in BOOLEAN
  /\ InitState

SpecChat == InitChat /\ [][NextChat]_vars

\* Normal-role connections whose frames are set_lang and chat: the handlers
\* that change the registry and the handler with the most sends.
NextTurn ==
  \E c \in Conns :
    \/ Endpoint(c, FALSE)
    \/ Accept(c, "ok")
    \/ PeerGone(c)
    \/ RecvSetLang(c, <<"E","S">>)
    \/ \E outcome \in {"ok", "wsd"} : ReplySent(c, outcome)
    \/ RecvChat(c, Plain("hi"))
    \/ ChatTranslated(c, "ok")
    \/ \E outcome \in {"ok", "wsd"} : ChatSent(c, outcome)
    \/ Loop(c)
    \/ Except(c)

\* either ConnectionManager class, without DEEPL_API_KEY
InitTurn ==
  /\ variant \in {"cm", "main"}
  /\ translator = FALSE
  /\ InitState

SpecTurn == InitTurn /\ [][NextTurn]_vars

\* Connections, the heartbeat and requests to /subtitle_one, on one event
\* loop.
NextOne ==
  \/ EndpointStep
  \/ HeartbeatStep
  \/ SubtitleOneStep

\* main.py's ConnectionManager, with DEEPL_API_KEY set
InitOne ==
  /\ variant = "main"
  /\ translator = TRUE
  /\ InitState

SpecOne == InitOne /\ [][NextOne]_vars

\* The two mappings, called again and again with one language code.
NextMap ==
  \/ MapSource
  \/ MapTarget

\* connection_manager.py's ConnectionManager and any language code
InitMap ==
  /\ variant = "cm"
  /\ translator = TRUE
  /\ InitManager
  /\ lang_call \in {[NoLangCall EXCEPT !.lang = l] : l \in CodeInputs \cup {NoneLang}}

SpecMap == InitMap /\ [][NextMap]_vars

-----------------------------------------------------------------------------
(* Properties of the registry (SpecRegistry). *)

Live(c) == InSeq(active_connections, c)

Count(s, x) == Cardinality({i \in 1..Len(s) : s[i] = x})

GroupsOf(G, c) == {i \in 1..Len(G) : InSeq(G[i].members, c)}

GroupKeysOf(G, c) == {G[i].lang : i \in GroupsOf(G, c)}

\* C1: in every state, each registered session is a member, once, of exactly
\* one language group, the one keyed by its current preferred language, and
\* no group has a member that is not registered.
LangGroupInvariant ==
  /\ \A c \in Conns :
       Live(c) =>
         \E i \in 1..Len(lang_groups) :
           /\ lang_groups[i].lang = preferred_lang[c]
           /\ Count(lang_groups[i].members, c) = 1
           /\ GroupsOf(lang_groups, c) = {i}
  /\ \A i \in 1..Len(lang_groups) :
       /\ \A j \in 1..Len(lang_groups[i].members) : Live(lang_groups[i].members[j])
       /\ \A k \in 1..Len(lang_groups) : lang_groups[k].lang = lang_groups[i].lang => k = i

\* a session has moved to another group, a second group exists, and the
\* first session to register has been unregistered
LangGroupWitness ==
  /\ Len(lang_groups) = 2
  /\ pc["w1"] = "ended"
  /\ \E c \in Conns : Live(c) /\ preferred_lang[c] # <<"e","n">>

\* C2: at most one registered session holds the relay role (was told
\* is_pi = true in its hello), whatever the interleaving of the connects.
AtMostOneRelay ==
  Cardinality({c \in Conns : Live(c) /\ is_pi[c]}) <= 1

\* C3: a connection that asks for the relay role while a registered session
\* holds it is refused, and its refusal changes nothing in the registry.
SecondRelayRejected ==
  [][\A c \in Conns :
       /\ ( /\ pc[c] = "idle"
            /\ pc'[c] # "idle"
            /\ is_pi'[c]
            /\ \E d \in Conns : Live(d) /\ is_pi[d] )
          => pc'[c] = "reject"
       /\ (pc[c] = "reject" /\ pc'[c] # "reject")
          => (UNCHANGED RegVars /\ pc'[c] \in {"ended", "crashed"})
    ]_vars

\* C4: the step that unregisters a registered session c removes c from the
\* connection list, from the id index and from every language group, clears
\* the relay reference if and only if it named c, and changes nothing of any
\* other session.
UnregisterFrame ==
  [][\A c \in Conns :
       (Live(c) /\ pc[c] # "ended" /\ pc'[c] = "ended") =>
         /\ active_connections' = SelectSeq(active_connections, LAMBDA x : x # c)
         /\ clients_by_id' = clients_by_id \ {c}
         /\ GroupsOf(lang_groups', c) = {}
         /\ pi_client_id' = IF pi_client_id = c THEN None ELSE pi_client_id
         /\ \A d \in Conns \ {c} :
              /\ preferred_lang'[d] = preferred_lang[d]
              /\ display_name'[d] = display_name[d]
              /\ is_pi'[d] = is_pi[d]
              /\ GroupKeysOf(lang_groups', d) = GroupKeysOf(lang_groups, d)
    ]_vars

\* the first session has been unregistered while the relay reference names
\* the second and the third is in a group of its own
UnregisterWitness ==
  /\ pc["w1"] = "ended"
  /\ pi_client_id = "w2"
  /\ Live("w3")
  /\ preferred_lang["w3"] # <<"e","n">>

\* C5: unregistering a handle that matches no registered session changes
\* nothing, and unregistering any handle twice gives the registry that
\* unregistering it once gives.
UnknownHandleNoop ==
  \A ws \in Conns :
    LET once == Disconnect(Reg, ws)
    IN  /\ ~Live(ws) => once = Reg
        /\ Disconnect(once, ws) = once

\* the endpoint of a refused relay has run manager.disconnect on its handle,
\* which was never registered, while a relay and language groups exist
UnknownHandleWitness ==
  \E c \in Conns :
    /\ pc[c] = "ended"
    /\ is_pi[c]
    /\ ~Live(c)
    /\ pi_client_id \notin {None, c}
    /\ lang_groups # <<>>

\* C6: once a connection's endpoint is over, for whatever reason, its
\* session is out of the registry.
NoSessionOutlivesConnection ==
  \A c \in Conns :
    pc[c] \in {"ended", "crashed"} => ~Live(c) /\ c \notin clients_by_id

-----------------------------------------------------------------------------
(* Properties of the chat broadcast (SpecChat). *)

PayloadsTo(t, d) == {i \in 1..Len(t.sent) : t.sent[i].to = d}

\* the fan-out of c's chat frame is over and the registry did not change
\* while it ran
BroadcastOver(c) ==
  /\ pc[c] \in {"returned", "raised"}
  /\ task[c].kind = "chat"
  /\ ~task[c].changed

\* the primary subtag of a language code: "en" for en, EN and en-gb
BaseLang(lang) == First2(Lower(lang))

\* C7: when the registry does not change during a broadcast of sender c,
\* every other registered session whose connection is up was sent exactly
\* one chat payload, and c was sent none.
ChatDeliveredToAll ==
  \A c \in Conns :
    BroadcastOver(c) =>
      /\ PayloadsTo(task[c], c) = {}
      /\ \A d \in Conns \ {c} :
           (Live(d) /\ d \notin closed) => Cardinality(PayloadsTo(task[c], d)) = 1

\* C8: the payload built for receiver r carries the sender's language as
\* source_lang, r's language as target_lang, the original text, and as
\* translated_text the translation of the text from the one to the other.
ChatPayloadTranslated ==
  \A c \in Conns :
    (pc[c] = "chat_send" /\ ~task[c].changed) =>
      LET p == task[c].out
          r == p.to
      IN  /\ p.source_lang = preferred_lang[c]
          /\ p.target_lang = preferred_lang[r]
          /\ p.original_text = task[c].text
          /\ p.translated_text \in
               { translate_text(task[c].text, preferred_lang[r],
                                preferred_lang[c], o) : o \in {"ok", "fail"} }

\* C9: when sender and receiver have the same base language the payload
\* carries the original text as translated_text, with no marker, with or
\* without a translator.
SameBaseNoTranslation ==
  \A c \in Conns :
    (pc[c] = "chat_send" /\ ~task[c].changed) =>
      LET p == task[c].out
      IN  BaseLang(preferred_lang[c]) = BaseLang(preferred_lang[p.to])
            => p.translated_text = task[c].text

\* C10: with no translator, every registered receiver with a connection that
\* is up and a base language other than the sender's was sent exactly one
\* payload, whose translated_text is the non-empty original text in the
\* untranslated marker of the receiver's language.
TranslationFailureStillDelivers ==
  \A c \in Conns :
    (variant = "cm" /\ ~translator /\ BroadcastOver(c) /\ Truthy(task[c].text)) =>
      \A d \in Conns \ {c} :
        ( /\ Live(d)
          /\ d \notin closed
          /\ BaseLang(preferred_lang[d]) # BaseLang(preferred_lang[c]) )
        => /\ Cardinality(PayloadsTo(task[c], d)) = 1
           /\ \A i \in PayloadsTo(task[c], d) :
                task[c].sent[i].translated_text
                  = Untranslated(preferred_lang[d], task[c].text)
-----------------------------------------------------------------------------
(* Properties of the 1-to-1 messages (SpecPersonal). *)

\* the name a session is shown under: its display name, or its id
Label(x) == IF display_name[x] # None THEN display_name[x] ELSE x

\* C11: a personal_chat of session c to another registered session B, once
\* handled with the registry unchanged, has sent exactly two payloads: the
\* first to B with display text "[from <c's label>] <translated text>", the
\* second to c with "[to <B's label>] <translated text>", equal in
\* source_id, target_id, original_text, translated_text, source_lang and
\* target_lang, the text translated from c's language to B's.
PersonalDelivered ==
  \A c \in Conns :
    LET t == task[c]
        B == t.cur
    IN  ( /\ pc[c] = "returned"
          /\ t.kind = "personal"
          /\ ~t.changed
          /\ t.src = c
          /\ B \in Conns \ {c}
          /\ Live(B) )
        => /\ Len(t.sent) = 2
           /\ t.sent[1].to = B
           /\ t.sent[2].to = c
           /\ t.sent[1].display_text
                = [pfx |-> "from", label |-> Label(c), body |-> t.sent[1].translated_text]
           /\ t.sent[2].display_text
                = [pfx |-> "to", label |-> Label(B), body |-> t.sent[1].translated_text]
           /\ \A i \in 1..2 :
                /\ t.sent[i].source_id = c
                /\ t.sent[i].target_id = B
                /\ t.sent[i].original_text = t.text
                /\ t.sent[i].translated_text = t.sent[1].translated_text
                /\ t.sent[i].source_lang = preferred_lang[c]
                /\ t.sent[i].target_lang = preferred_lang[B]
           /\ t.sent[1].translated_text \in
                { translate_text(t.text, preferred_lang[B], preferred_lang[c], o) :
                    o \in {"ok", "fail"} }

\* C12: a personal_chat whose target id names no registered session is
\* dropped when it is read: nothing is sent or about to be sent, to the
\* sender or anyone else, and the registry is unchanged.
PersonalMissDropped ==
  [][\A c \in Conns :
       ( /\ pc[c] = "recv"
         /\ task'[c].kind = "personal"
         /\ get_client_by_id(Reg, task'[c].cur) = None )
       => /\ pc'[c] = "returned"
          /\ task'[c].sent = <<>>
          /\ UNCHANGED RegVars
    ]_vars

\* C13: every payload of a personal_chat read on c's connection has c as
\* source_id, and its echo goes to c's connection, whatever ids the frame
\* carries.
PersonalSenderIsConnection ==
  \A c \in Conns :
    (task[c].kind = "personal" /\ pc[c] \in {"pm_target", "pm_echo"}) =>
      /\ task[c].out.source_id = c
      /\ pc[c] = "pm_echo" => task[c].out.to = c

-----------------------------------------------------------------------------
(* Properties of the headset pipeline (SpecHeadset). *)

\* the recognized transcript of an audio, trimmed
Transcript(audio) == Strip(IF audio = NoneLang THEN <<>> ELSE audio)

\* C14: a headset_audio frame read while no relay is registered sends
\* nothing, raises nothing, changes nothing in the registry and leaves the
\* endpoint returning to its loop.
HeadsetNoRelayDropped ==
  [][\A c \in Conns :
       (pi_client_id = None /\ \E result \in AsrResults : RecvHeadset(c, result))
       => /\ pc'[c] = "returned"
          /\ task'[c].sent = <<>>
          /\ Live(c)'
          /\ UNCHANGED RegVars
    ]_vars

\* the audio holds no word: Whisper returns no text, or blanks only
Blank(audio) ==
  audio = NoneLang \/ \A i \in 1..Len(audio) : audio[i] = " "

HeadsetForwarded ==
  \A c \in Conns :
    LET t == task[c]
        ToRelay == {i \in 1..Len(t.sent) : t.sent[i].to = pi_client_id}
    IN  ( /\ t.kind = "headset"
          /\ pc[c] \in {"returned", "raised"}
          /\ ~t.changed
          /\ t.text # NoText
          /\ Transcript(t.audio) # <<>>
          /\ pi_client_id # None
          /\ Live(pi_client_id) )
        => /\ pc[c] = "returned"
           /\ Cardinality(ToRelay) = 1
           /\ \A i \in ToRelay :
                /\ t.sent[i].target_id = pi_client_id
                /\ t.sent[i].original_text = Str(Transcript(t.audio))
                /\ t.sent[i].type \notin {"chat", "personal_chat", "none"}

\* the transcription of c's headset_audio frame has raised
AsrFailed(c) ==
  /\ pc[c] = "raised"
  /\ task[c].kind = "headset"
  /\ task[c].text = NoText

\* C17: after a failed transcription nothing is sent, the registry is left
\* as it is and the endpoint goes back to receive its next frame.
AsrFailureDropped ==
  [][\A c \in Conns :
       AsrFailed(c) =>
         /\ task[c].sent = <<>>
         /\ pc'[c] \in {"raised", "returned", "recv"}
         /\ pc'[c] # "raised" => UNCHANGED RegVars
    ]_vars

-----------------------------------------------------------------------------
(* Properties of the protocol errors. *)

\* declared types the endpoint has no branch for
UnknownTypes == {"foo", "bar"}

\* C18 as stated (SpecRegistry): a frame of an unrecognized type is answered with one
\* error payload, to its own connection, that names the type, and the
\* registry is unchanged.
UnknownTypeAnswered ==
  [][\A c \in Conns :
       RecvUnknown(c) =>
         /\ pc'[c] = "reply"
         /\ task'[c].out.type = "error"
         /\ task'[c].out.to = c
         /\ UNCHANGED RegVars
         /\ \A ty \in UnknownTypes :
              \E i \in 1..Len(task'[c].out.text) : task'[c].out.text[i] = ty
    ]_vars

\* C18, as the code has it: a frame of an unrecognized type is answered with
\* one error payload whose text is the fixed "Unknown message type", which
\* does not name the type; the payload goes to the frame's own connection,
\* no other coroutine is given anything to send, the registry is unchanged,
\* and once the reply is over the endpoint receives again or has ended.
UnknownTypeGeneric ==
  [][\A c \in Conns :
       /\ RecvUnknown(c) =>
            /\ pc'[c] = "reply"
            /\ task'[c].out.type = "error"
            /\ task'[c].out.to = c
            /\ task'[c].out.text = <<"Unknown", "message", "type">>
            /\ \A ty \in UnknownTypes :
                 \A i \in 1..Len(task'[c].out.text) : task'[c].out.text[i] # ty
            /\ task'[c].sent = <<>>
            /\ \A d \in Conns \ {c} : task'[d] = task[d] /\ pc'[d] = pc[d]
            /\ UNCHANGED RegVars
       /\ (pc[c] = "reply" /\ task[c].kind = "error") =>
            pc'[c] \in {"reply", "recv", "ended", "crashed"}
    ]_vars

\* the error payload of an unknown type is about to be sent to its
\* originator while another session is registered
UnknownTypeWitness ==
  \E c \in Conns, d \in Conns :
    /\ d # c
    /\ Live(c)
    /\ Live(d)
    /\ pc[c] = "reply"
    /\ task[c].kind = "error"
    /\ task[c].out.type = "error"

\* C19 (SpecRegistry): an undecodable frame is answered with an error
\* payload to its own connection; the registry is unchanged, the session
\* stays registered and its connection stays open.
MalformedFrameAnswered ==
  [][\A c \in Conns :
       RecvMalformed(c) =>
         /\ pc'[c] = "reply"
         /\ task'[c].out.type = "error"
         /\ task'[c].out.to = c
         /\ c \notin closed'
         /\ UNCHANGED RegVars
    ]_vars

\* C20 (SpecPersonal): a set_lang frame without "lang" and a personal_chat
\* frame without a target id are answered with an error payload to their
\* own connection only, and change nothing in the registry.
MissingFieldAnswered ==
  [][\A c \in Conns :
       ( \/ RecvSetLangDefault(c)
         \/ \E from \in Conns \cup {None} : RecvPersonal(c, from, None, Plain("hi")) )
       => /\ pc'[c] = "reply"
          /\ task'[c].out.type = "error"
          /\ task'[c].out.to = c
          /\ UNCHANGED RegVars
    ]_vars
-----------------------------------------------------------------------------
(* Properties of set_lang (SpecLang). *)

\* the code a raw language stands for: trimmed and lower-cased, "en" when
\* nothing is left
Resolved(raw) ==
  LET I == {i \in 1..Len(raw) : raw[i] # " "}
      lo == CHOOSE i \in I : \A j \in I : i <= j
      hi == CHOOSE i \in I : \A j \in I : j <= i
  IN  IF I = {} THEN <<"e", "n">>
      ELSE [i \in 1..(hi - lo + 1) |-> LowerChar(raw[lo + i - 1])]

\* C25: setting a registered session's language to a raw code that stands
\* for the language it has changes no language group and no session's
\* language, and setting any raw code twice gives what setting it once gives.
SetLangIdempotent ==
  \A ws \in Conns : \A raw \in LangInputs :
    LET once == UpdateClientLang(Reg, ws, raw)
    IN  /\ (Live(ws) /\ Resolved(raw) = preferred_lang[ws]) =>
             (once.groups = lang_groups /\ once.lang = preferred_lang)
        /\ UpdateClientLang(once, ws, raw) = once

\* C26: after a set_lang frame with the raw code `raw', the session's
\* language is the code raw stands for, and the session is in the group of
\* that key and in no other; so sessions whose codes differ in letter case
\* only are in one group.
SetLangNormalizes ==
  [][\A c \in Conns : \A raw \in LangInputs :
       RecvSetLang(c, raw) =>
         /\ preferred_lang'[c] = Resolved(raw)
         /\ GroupKeysOf(lang_groups', c) = {Resolved(raw)}
    ]_vars

\* C27: a set_lang frame is answered with one acknowledgement, to its own
\* connection, whose lang is the session's language as stored after the
\* update and which carries the session's display name; no other coroutine
\* is given anything to send.
SetLangAcknowledged ==
  [][\A c \in Conns : \A raw \in LangInputs :
       RecvSetLang(c, raw) =>
         /\ pc'[c] = "reply"
         /\ task'[c].out.type = "set_lang"
         /\ task'[c].out.to = c
         /\ task'[c].out.lang = preferred_lang'[c]
         /\ task'[c].out.source_display_name # None
         /\ task'[c].out.source_display_name = display_name'[c]
         /\ \A d \in Conns \ {c} : pc'[d] = pc[d] /\ task'[d].out = task[d].out
    ]_vars

\* C28: update_client_lang and disconnect have no await, so on one session
\* they run one after the other, in either order.  In both orders the
\* session is in at most one group after update_client_lang and in none
\* after disconnect, and an update_client_lang after the disconnect changes
\* nothing.
SetLangUnregisterSafe ==
  \A ws \in Conns : \A raw \in LangInputs :
    LET U == UpdateClientLang(Reg, ws, raw)
        D == Disconnect(Reg, ws)
        UD == Disconnect(U, ws)
        DU == UpdateClientLang(D, ws, raw)
        In(R) == {i \in 1..Len(R.groups) : InSeq(R.groups[i].members, ws)}
    IN  /\ Cardinality(In(U)) <= 1
        /\ \A i \in In(U) : Count(U.groups[i].members, ws) = 1
        /\ In(D) = {}
        /\ In(UD) = {}
        /\ DU = D
        /\ UD.ac = D.ac /\ UD.byid = D.byid /\ UD.pi = D.pi

\* a session that has set a language other than the default one is
\* registered next to a session of the default language
SetLangUnregisterWitness ==
  \E ws \in Conns, d \in Conns :
    /\ d # ws
    /\ Live(ws) /\ Live(d)
    /\ preferred_lang[ws] \notin {NoneLang, <<"e", "n">>}
    /\ preferred_lang[d] = <<"e", "n">>
    /\ Len(lang_groups) = 2
    /\ pc[ws] = "recv"
-----------------------------------------------------------------------------
(* Properties of the heartbeat (SpecHeartbeat, SpecHeartbeatFair). *)

\* C23: the heartbeat task begins ticks again and again, and a tick in
\* which a send failed is followed by the back-off and then by the sleep
\* that precedes the next tick.
HeartbeatNeverStops ==
  /\ []<>(heartbeat.tick = 0)
  /\ []<>(heartbeat.tick = 1)
  /\ (heartbeat.pc = "backoff") ~> (heartbeat.pc = "sleep")

\* the failed send of a tick has been backed off and the task sleeps before
\* its next tick
HeartbeatRetryWitness ==
  /\ heartbeat.pc = "sleep"
  /\ heartbeat.failed
  /\ heartbeat.sent # <<>>

\* the sessions the finished or failed tick has sent its payload to
HeartbeatReceivers == {heartbeat.sent[i].to : i \in 1..Len(heartbeat.sent)}

HeartbeatFailureIsolated ==
  LET h == heartbeat
  IN  (h.pc = "backoff" /\ ~h.changed) =>
        \A d \in Conns :
          (Live(d) /\ d \notin closed /\ d # h.cur) => d \in HeartbeatReceivers

\* C29: when a tick is over in which no send failed, every session that was
\* registered at every step of it has been sent its payload exactly once,
\* whatever registered or unregistered in between.
FanOutOverSnapshot ==
  LET h == heartbeat
  IN  (h.pc = "sleep" /\ ~h.failed) =>
        \A d \in h.stayed :
          Cardinality({i \in 1..Len(h.sent) : h.sent[i].to = d}) = 1

-----------------------------------------------------------------------------
(* Failure isolation between connections (SpecChat). *)

\* C24: when a send of c's chat broadcast to another session has failed,
\* c's own connection being up, c's endpoint does not end and c stays
\* registered.
ChatFailureIsolated ==
  [][\A c \in Conns :
       ( /\ pc[c] = "raised"
         /\ task[c].kind = "chat"
         /\ task[c].out.to # c
         /\ c \notin closed )
       => /\ pc'[c] \notin {"ended", "crashed"}
          /\ Live(c)'
    ]_vars

-----------------------------------------------------------------------------
(* Properties of the side-channel broadcast (SpecSubtitle). *)

\* C30: a POST /subtitle broadcast is not aborted by a change of the
\* language groups made while it is suspended, sends no session more than
\* one payload and the originating id none, and every payload carries the
\* text translated to the language of the group it was sent for.
SideBroadcastCompletes ==
  LET s == subtitle
  IN  /\ s.exc # "runtime"
      /\ \A d \in Conns :
           Cardinality({i \in 1..Len(s.sent) : s.sent[i].to = d}) <= 1
      /\ \A i \in 1..Len(s.sent) :
           /\ s.sent[i].to # s.source_client_id
           /\ s.sent[i].translated_text \in
                { translate_text_main(s.text, s.sent[i].target_lang,
                                      s.source_lang, o) : o \in {"ok", "fail"} }

-----------------------------------------------------------------------------
(* Properties of the 1-to-1 delivery under a change of the registry         *)
(* (SpecPersonal).                                                          *)

\* C34: with connection_manager.py, a 1-to-1 delivery sends its outgoing
\* echo to the sender only if it has sent the target its payload: at the
\* echo's send_text, the payload to the target is among those sent.
EchoOnlyAfterDelivery ==
  \A c \in Conns :
    ( /\ variant = "cm"
      /\ task[c].kind \in {"personal", "headset"}
      /\ pc[c] = "pm_echo" )
    => \E i \in 1..Len(task[c].sent) :
         /\ task[c].sent[i].to = task[c].cur
         /\ task[c].sent[i].target_id = task[c].cur

-----------------------------------------------------------------------------
(* Properties of the endpoint loop (SpecTurn). *)

\* the handler's locals of c but for the bookkeeping no code reads
Locals(t) == [t EXCEPT !.changed = FALSE]

\* C31: the handling of a frame of a connection begins only when the
\* handling of its frame before is over: the endpoint is at receive_text,
\* none of its sends is pending and no local of a handler is left, so every
\* change of the registry and every send of the frame before is done.
FramesHandledInTurn ==
  [][\A c \in Conns :
       ( /\ msgs' = msgs + 1
         /\ (pc'[c] # pc[c] \/ Locals(task'[c]) # Locals(task[c])) )
       => /\ pc[c] = "recv"
          /\ task[c] = IdleTask
    ]_vars

\* w1, the only connection so far, has had its first frame handled and is
\* sending the acknowledgement of its second, a set_lang
FramesHandledWitness ==
  /\ msgs = 2
  /\ pc["w2"] = "idle"
  /\ pc["w1"] = "reply"
  /\ task["w1"].kind = "set_lang"
  /\ task["w1"].sent = <<>>

-----------------------------------------------------------------------------
(* Properties of the collaborator calls (SpecOne). *)

\* a call of the translation or the transcription service, made for a
\* connection or for a side-channel request, is pending
CallPending ==
  \/ subtitle.pc \in {"one_tr", "tr"}
  \/ \E c \in Conns : pc[c] \in {"chat_tr", "pm_tr", "hs_asr", "hp_tr"}

\* C32: while a call of the translation or transcription service is pending
\* for a connection or a side-channel request, the heartbeat task can take its next step, and so can every connection
\* whose endpoint has a step to take: the acknowledgement or error it is
\* sending, or the registration after its accept.
CollaboratorCallOffLoop ==
  CallPending =>
    /\ ENABLED HeartbeatStep
    /\ \A c \in Conns :
         pc[c] \in {"accept", "reply"} =>
           ENABLED (~LoopBusy /\ (Accept(c, "ok") \/ ReplySent(c, "ok")))

-----------------------------------------------------------------------------
(* Properties of the language-code mappings (SpecMap). *)

\* what a mapping returned is a code: a string of at least one character,
\* not None
IsCode(x) == x # NoneLang /\ Len(x) >= 1

\* C33: for a language code of at least one character, every call of the
\* source mapping and every call of the target mapping has returned a code,
\* never None, and each mapping has returned the same code at every call.
MappingsTotalAndStable ==
  (lang_call.lang # NoneLang /\ lang_call.lang # <<>>) =>
    /\ \A i \in 1..Len(lang_call.source) :
         /\ IsCode(lang_call.source[i])
         /\ lang_call.source[i] = lang_call.source[1]
    /\ \A i \in 1..Len(lang_call.target) :
         /\ IsCode(lang_call.target[i])
         /\ lang_call.target[i] = lang_call.target[1]

\* both mappings have been called twice with a code that is in neither
\* table, and have fallen back to its first two characters
MappingsWitness ==
  /\ lang_call.lang = <<"z","4","-">>
  /\ lang_call.source = << <<"Z","4">>, <<"Z","4">> >>
  /\ lang_call.target = << <<"Z","4">>, <<"Z","4">> >>
====
